---- MODULE Spec2Model ----
(***************************************************************************)
(* Model of the x-callback-url client of the Bear MCP server               *)
(* (BearAPI.executeCommand, callback variant).  One exchange is one call   *)
(* of executeCommand: a promise, an HTTP server created for it, the `open` *)
(* child process and the timeout timer.  The environment is the operating  *)
(* system (port allocation, TCP connections, the `open` process) and any   *)
(* HTTP client that reaches the listener (the Bear app or anything else).  *)
(***************************************************************************)
EXTENDS Integers, Sequences, FiniteSets, TLC

\* ---------------------------------------------------------------- bounds
\* The commands that may be in flight at the same time.
Exchanges == {"A", "B"}

\* Ephemeral ports the operating system may hand out.
NumPorts == 2
Ports == 1..NumPorts

\* TCP connections that may be open to one listener at a time.
MaxConns == 1

\* Inbound requests one listener's handler is followed through.
MaxHandled == 2

\* ------------------------------------------------------- inbound requests
\* The url of a malformed request: `new URL(req.url, base)` throws on it.
MalformedUrl == "//"

\* Query strings of the well-formed requests, as lists of key/value pairs.
Queries ==
  { << <<"identifier", "abc-123">>, <<"title", "Meeting Notes">> >>,
    << <<"errorCode", "2">>, <<"errorMessage", "not found">> >> }

\* What an HTTP client may send: a url the parser accepts, with a query,
\* or a url it rejects.
Requests ==
  { [url |-> "/", query |-> q] : q \in Queries }
    \cup { [url |-> MalformedUrl, query |-> << >>] }

\* JSON.parse(value): the raw values that are JSON texts.
IsJSON(v) == v \in {"2", "true", "null"}

\* callbackData[key] = JSON.parse(value), or the raw value when that throws.
DecodeValue(v) == IF IsJSON(v) THEN <<"json", v>> ELSE <<"raw", v>>

\* The loop over queryParams.entries(): later entries overwrite earlier ones.
RECURSIVE DecodeQuery(_)
DecodeQuery(q) ==
  IF q = << >> THEN << >>
  ELSE LET n    == Len(q)
           rest == DecodeQuery(SubSeq(q, 1, n - 1))
           k    == q[n][1]
           d    == DecodeValue(q[n][2])
       IN [x \in (DOMAIN rest) \cup {k} |-> IF x = k THEN d ELSE rest[x]]

NoResult == << >>

\* ------------------------------------------------------ JavaScript values
\* A string is its sequence of characters, so that trim and join are
\* computed; every value carries its typeof.
Undef == <<"undefined">>
Str(cs) == <<"string", cs>>
Bool(b) == <<"boolean", b>>
Arr(xs) == <<"array", xs>>
Num(n) == <<"number", n>>

TypeOf(v) == v[1]

\* if (v): the empty string, false, 0 and undefined are falsy.
Truthy(v) ==
  CASE TypeOf(v) = "undefined" -> FALSE
    [] TypeOf(v) = "string" -> v[2] # << >>
    [] TypeOf(v) = "boolean" -> v[2]
    [] TypeOf(v) = "number" -> v[2] # 0
    [] OTHER -> TRUE

\* params.f: undefined when the caller gave no such field.
Get(params, f) == IF f \in DOMAIN params THEN params[f] ELSE Undef

Yes == Str(<<"y", "e", "s">>)
No == Str(<<"n", "o">>)

\* ---------------------------------------------------------------- utils
\* String.prototype.trim on a sequence of characters.
RECURSIVE TrimLeft(_)
TrimLeft(cs) ==
  IF cs # << >> /\ Head(cs) = " " THEN TrimLeft(Tail(cs)) ELSE cs

RECURSIVE TrimRight(_)
TrimRight(cs) ==
  IF cs # << >> /\ cs[Len(cs)] = " "
  THEN TrimRight(SubSeq(cs, 1, Len(cs) - 1)) ELSE cs

Trim(cs) == TrimRight(TrimLeft(cs))

\* Array.prototype.join(',') on an array of strings.
RECURSIVE JoinReversed(_)
JoinReversed(xs) ==
  IF xs = << >> THEN << >>
  ELSE IF Len(xs) = 1 THEN xs[1]
  ELSE JoinReversed(Tail(xs)) \o <<",">> \o Head(xs)

RECURSIVE Join(_)
Join(xs) ==
  IF xs = << >> THEN << >>
  ELSE IF Len(xs) = 1 THEN xs[1]
  ELSE Head(xs) \o <<",">> \o Join(Tail(xs))

\* formatTags(tags)
formatTags(tags) ==
  IF TypeOf(tags) = "array" THEN Str(Join(tags[2])) ELSE tags

\* validateNonEmptyString(value, name) returns normally.
NonEmptyStringLoose(value) == TypeOf(value) = "string" /\ value[2] # << >>

IsNonEmptyString(value) ==
  TypeOf(value) = "string" /\ Trim(value[2]) # << >>

IsBooleanLikeCoercing(value) == TRUE

\* validateAndFormatBoolean(value, name) returns normally.
IsBooleanLike(value) ==
  TypeOf(value) = "boolean" \/ value = Yes \/ value = No

\* validateAndFormatBoolean(value, name), where it returns.
FormatBoolean(value) ==
  IF TypeOf(value) = "boolean" THEN (IF value[2] THEN Yes ELSE No)
  ELSE value

\* validateAndFormatBoolean(value, name): the token returned, or the throw.
validateAndFormatBoolean(value) ==
  IF IsBooleanLike(value)
  THEN [ok |-> TRUE, value |-> FormatBoolean(value)]
  ELSE [ok |-> FALSE, value |-> Undef]

\* --------------------------------------------------------------- facade
\* commandParams[k] = v
Put(cp, k, v) ==
  [x \in (DOMAIN cp) \cup {k} |-> IF x = k THEN v ELSE cp[x]]

\* The statements of the facade methods, by shape:
\*   "copy"      if (params.f) commandParams.f = params.f
\*   "boolean"   if (params.f !== undefined)
\*                 commandParams.f = validateAndFormatBoolean(params.f, 'f')
\*   "tags"      if (params.f) commandParams.f = formatTags(params.f)
\*   "required"  validateNonEmptyString(params.f, 'f'); commandParams.f = params.f
Fields(method) ==
  CASE method = "openNote" ->
         << <<"id", "copy">>, <<"title", "copy">>, <<"header", "copy">>,
            <<"exclude_trashed", "boolean">>, <<"new_window", "boolean">>,
            <<"float", "boolean">>, <<"show_window", "boolean">>,
            <<"open_note", "boolean">>, <<"selected", "boolean">>,
            <<"pin", "boolean">>, <<"edit", "boolean">>,
            <<"search", "copy">> >>
    [] method = "createNote" ->
         << <<"title", "copy">>, <<"text", "copy">>,
            <<"clipboard", "boolean">>, <<"tags", "tags">>,
            <<"file", "copy">>, <<"filename", "copy">>,
            <<"open_note", "boolean">>, <<"new_window", "boolean">>,
            <<"float", "boolean">>, <<"show_window", "boolean">>,
            <<"pin", "boolean">>, <<"edit", "boolean">>,
            <<"timestamp", "boolean">>, <<"type", "copy">>,
            <<"url", "copy">> >>
    [] method = "addText" ->
         << <<"id", "copy">>, <<"title", "copy">>,
            <<"selected", "boolean">>, <<"text", "copy">>,
            <<"clipboard", "boolean">>, <<"header", "copy">>,
            <<"mode", "copy">>, <<"new_line", "boolean">>,
            <<"tags", "tags">>, <<"exclude_trashed", "boolean">>,
            <<"open_note", "boolean">>, <<"new_window", "boolean">>,
            <<"show_window", "boolean">>, <<"edit", "boolean">>,
            <<"timestamp", "boolean">> >>
    [] method = "addFile" ->
         << <<"id", "copy">>, <<"title", "copy">>,
            <<"selected", "boolean">>, <<"file", "required">>,
            <<"filename", "required">>, <<"header", "copy">>,
            <<"mode", "copy">>, <<"open_note", "boolean">>,
            <<"new_window", "boolean">>, <<"show_window", "boolean">>,
            <<"edit", "boolean">> >>
    [] method = "getTags" -> << >>
    [] method = "openTag" -> << <<"name", "required">> >>
    [] method = "renameTag" ->
         << <<"name", "required">>, <<"new_name", "required">>,
            <<"show_window", "boolean">> >>
    [] method = "deleteTag" ->
         << <<"name", "required">>, <<"show_window", "boolean">> >>
    [] method \in {"trashNote", "archiveNote"} ->
         << <<"id", "copy">>, <<"search", "copy">>,
            <<"show_window", "boolean">> >>
    [] method \in {"showUntagged", "showTodo", "showToday", "showLocked"} ->
         << <<"search", "copy">>, <<"show_window", "boolean">> >>
    [] method = "searchNotes" ->
         << <<"term", "copy">>, <<"tag", "copy">>,
            <<"show_window", "boolean">> >>
    [] method = "grabURL" ->
         << <<"url", "required">>, <<"tags", "tags">>,
            <<"pin", "boolean">>, <<"wait", "boolean">> >>

\* The action name each method passes to executeCommand.
ActionOf(method) ==
  CASE method = "openNote" -> "open-note"
    [] method = "createNote" -> "create"
    [] method = "addText" -> "add-text"
    [] method = "addFile" -> "add-file"
    [] method = "getTags" -> "tags"
    [] method = "openTag" -> "open-tag"
    [] method = "renameTag" -> "rename-tag"
    [] method = "deleteTag" -> "delete-tag"
    [] method = "trashNote" -> "trash"
    [] method = "archiveNote" -> "archive"
    [] method = "showUntagged" -> "untagged"
    [] method = "showTodo" -> "todo"
    [] method = "showToday" -> "today"
    [] method = "showLocked" -> "locked"
    [] method = "searchNotes" -> "search"
    [] method = "grabURL" -> "grab-url"

Methods ==
  {"openNote", "createNote", "addText", "addFile", "getTags", "openTag",
   "renameTag", "deleteTag", "trashNote", "archiveNote", "showUntagged",
   "showTodo", "showToday", "showLocked", "searchNotes", "grabURL"}

\* How each method treats the token.
TokenPolicy(method) ==
  CASE method \in {"openNote", "addText", "addFile"} -> "selected"
    [] method = "getTags" -> "always"
    [] method \in {"openTag", "showUntagged", "showTodo", "showToday",
                   "searchNotes"} -> "override"
    [] OTHER -> "none"

\* A method's progress: the commandParams built so far, or the error thrown.
Building(cp) == [ok |-> TRUE, params |-> cp]
Thrown(message, name) ==
  [ok |-> FALSE, error |-> [message |-> message, name |-> name]]

\* One statement of a method, for the field f of shape kind.
FieldStep(acc, params, f, kind) ==
  LET v == Get(params, f) IN
  IF ~acc.ok THEN acc
  ELSE CASE kind = "copy" ->
              IF Truthy(v) THEN Building(Put(acc.params, f, v)) ELSE acc
         [] kind = "boolean" ->
              IF v = Undef THEN acc
              ELSE IF validateAndFormatBoolean(v).ok
                   THEN Building(Put(acc.params, f,
                                     validateAndFormatBoolean(v).value))
                   ELSE Thrown("must be a boolean or 'yes'/'no'", f)
         [] kind = "tags" ->
              IF Truthy(v) THEN Building(Put(acc.params, f, formatTags(v)))
              ELSE acc
         [] kind = "required" ->
              IF IsNonEmptyString(v) THEN Building(Put(acc.params, f, v))
              ELSE Thrown("must be a non-empty string", f)

\* The statements of a method in source order, up to the first throw.
RECURSIVE RunFields(_, _, _)
RunFields(acc, params, fs) ==
  IF fs = << >> THEN acc
  ELSE RunFields(FieldStep(acc, params, Head(fs)[1], Head(fs)[2]),
                 params, Tail(fs))

TokenStepNoCheck(acc, method, params, tok) ==
  IF ~acc.ok THEN acc
  ELSE CASE TokenPolicy(method) = "selected" ->
              IF Get(params, "selected") \in {Bool(TRUE), Yes}
              THEN IF Truthy(tok) THEN Building(Put(acc.params, "token", tok))
                   ELSE acc
              ELSE acc
         [] TokenPolicy(method) = "always" ->
              IF Truthy(tok) THEN Building(Put(acc.params, "token", tok))
              ELSE acc
         [] TokenPolicy(method) = "override" ->
              IF Truthy(Get(params, "token")) \/ Truthy(tok)
              THEN Building(Put(acc.params, "token",
                                IF Truthy(Get(params, "token"))
                                THEN Get(params, "token") ELSE tok))
              ELSE acc
         [] OTHER -> acc

\* The token statements that close a method; tok is this.token.
TokenStep(acc, method, params, tok) ==
  IF ~acc.ok THEN acc
  ELSE CASE TokenPolicy(method) = "selected" ->
              IF Get(params, "selected") \in {Bool(TRUE), Yes}
              THEN IF Truthy(tok) THEN Building(Put(acc.params, "token", tok))
                   ELSE Thrown("Token is required", "selected")
              ELSE acc
         [] TokenPolicy(method) = "always" ->
              IF Truthy(tok) THEN Building(Put(acc.params, "token", tok))
              ELSE Thrown("Token is required", "getTags")
         [] TokenPolicy(method) = "override" ->
              IF Truthy(Get(params, "token")) \/ Truthy(tok)
              THEN Building(Put(acc.params, "token",
                                IF Truthy(Get(params, "token"))
                                THEN Get(params, "token") ELSE tok))
              ELSE acc
         [] OTHER -> acc

\* A facade method run on params with this.token = tok: the error it
\* throws, or the commandParams it hands to executeCommand.
Facade(method, params, tok) ==
  TokenStep(RunFields(Building(<< >>), params, Fields(method)),
            method, params, tok)

\* ---------------------------------------------------------- facade calls
\* A params object: the fields given a value other than undefined.
Params(fs) == [k \in {x \in DOMAIN fs : fs[x] # Undef} |-> fs[k]]

Call(method, fs) == [method |-> method, params |-> Params(fs)]

NoCall == [method |-> "none", params |-> << >>]
NoSent == [action |-> "none", params |-> << >>]

\* Values a caller may give a required string field.
RequiredValues ==
  {Undef, Str(<< >>), Str(<<" ">>), Str(<<"a">>), Str(<<" ", "a", " ">>),
   Num(1), Bool(TRUE)}

\* Values a caller may give a boolean field ("m" stands for 'maybe').
BooleanValues ==
  {Undef, Bool(TRUE), Bool(FALSE), Yes, No, Str(<<"m">>), Num(1)}

\* Values a caller may give a tags field.
Work == <<"w", "o", "r", "k">>
Urgent == <<"u", "r", "g", "e", "n", "t">>

TagValues ==
  {Undef, Str(Work), Arr(<<Work, Urgent>>),
   Arr(<< <<"u">>, Work, <<"u">> >>), Arr(<<Work>>), Arr(<< >>)}

\* Values a caller may give an optional string field.
OptionalValues == {Undef, Str(<< >>), Str(<<"a">>)}

\* Tokens: the client's (constructor or setToken) and a per-call one.
TokenT == Str(<<"t">>)
TokenU == Str(<<"u">>)
TokenP == Str(<<"p">>)

\* The calls the facade claims are checked on.
FacadeCalls ==
  {Call("grabURL", [url |-> u, tags |-> t, pin |-> Undef]) :
     u \in RequiredValues, t \in {Undef, Arr(<<Work, Urgent>>)}}
  \cup {Call("grabURL", [url |-> Str(<<"a">>), tags |-> t, pin |-> b]) :
          t \in TagValues, b \in {Undef, Bool(TRUE), Str(<<"m">>)}}
  \cup {Call("openTag", [name |-> n, token |-> k]) :
          n \in RequiredValues, k \in {Undef, Str(<< >>), TokenP}}
  \cup {Call("deleteTag", [name |-> n, show_window |-> b]) :
          n \in RequiredValues, b \in {Undef, No}}
  \cup {Call("renameTag", [name |-> n, new_name |-> m]) :
          n \in RequiredValues, m \in {Undef, Str(<<" ">>), Str(<<"a">>)}}
  \cup {Call("addFile", [id |-> Str(<<"a">>), file |-> f, filename |-> g,
                         selected |-> b]) :
          f \in {Undef, Str(<<" ">>), Str(<<"a">>)},
          g \in {Undef, Str(<< >>), Str(<<"a">>)},
          b \in BooleanValues}
  \cup {Call("addText", [id |-> i, title |-> t, text |-> Str(<<"a">>),
                         selected |-> b]) :
          i \in OptionalValues, t \in OptionalValues, b \in BooleanValues}
  \cup {Call("openNote", [id |-> i, selected |-> b, pin |-> c]) :
          i \in OptionalValues, b \in BooleanValues,
          c \in {Undef, Bool(FALSE)}}
  \cup {Call("getTags", << >>)}
  \cup {Call("createNote", [title |-> t, tags |-> g, pin |-> b]) :
          t \in OptionalValues, g \in TagValues, b \in BooleanValues}
  \cup {Call(m, [search |-> x, token |-> k]) :
          m \in {"showUntagged", "showTodo", "showToday", "showLocked"},
          x \in OptionalValues, k \in {Undef, Str(<< >>), TokenP}}
  \cup {Call("searchNotes", [term |-> x, tag |-> Str(Work), token |-> k]) :
          x \in OptionalValues, k \in {Undef, Str(<< >>), TokenP}}
  \cup {Call(m, [id |-> x, show_window |-> b]) :
          m \in {"trashNote", "archiveNote"},
          x \in OptionalValues, b \in {Undef, Bool(TRUE), Num(1)}}

\* The calls the exchanges are followed on when several are in flight.
CoreCalls ==
  {Call("createNote", [title |-> Str(<<"M">>), text |-> Str(<<"#">>)]),
   Call("grabURL", [url |-> Str(<< >>)])}

\* ------------------------------------------------------- the bear:// url
\* `http://localhost:${port}`
CallbackUrl(p) == <<"http://localhost:", p>>

\* The query of the bear:// url: one entry per entry of params, then
\* x-success and x-error.
QueryOneTarget(params, callbackUrl) ==
  [k \in DOMAIN params \cup {"x-success"} |->
     IF k = "x-success" THEN callbackUrl ELSE params[k]]

Query(params, callbackUrl) ==
  [k \in DOMAIN params \cup {"x-success", "x-error"} |->
     IF k \in {"x-success", "x-error"} THEN callbackUrl ELSE params[k]]

\* `bear://x-callback-url/${action}?${queryString}`
BearUrl(action, params, callbackUrl) ==
  [action |-> action, query |-> Query(params, callbackUrl)]

NoUrl == [action |-> "none", query |-> << >>]

\* ------------------------------------------------------ the Bear database
\* Notes a search of the callback variant may find.
MaxFound == 11

\* Notes whose content handleSearchNotes of the callback variant fetches.
MAX_NOTES == 10

\* A column holding SQL NULL.
Null == <<"null">>

\* Rows of ZSFNOTE a database may hold, and rows of ZSFNOTETAG.
MaxRows == 26
MaxTagRows == 101

\* max_notes and max_tags when the caller gives none.
DEFAULT_MAX_NOTES == 25
DEFAULT_MAX_TAGS == 100

Min(a, b) == IF a < b THEN a ELSE b
Max(a, b) == IF a > b THEN a ELSE b

\* The text of a note is a sequence of sections: the lines up to the first
\* `## ` heading (header << >>), then one section per heading.
Section(h, b) == [header |-> h, body |-> b]

Body == <<"a", "b">>
Plan == <<"p", "l", "a", "n">>

\* The name of tag k; t1 is the tag the rows are linked to.
TagName(k) == <<"t", ToString(k)>>

\* Row i of ZSFNOTE in a database of shape v: every third row of shape 1 is
\* trashed, every fourth row of shape 2 has no text, odd rows are linked to
\* tag t1, titles repeat.  ZUNIQUEIDENTIFIER is a UUID given by Bear: no two
\* rows share it.
NoteRow(i, v) ==
  [pk |-> i,
   id |-> Str(<<"n", ToString(i)>>),
   title |-> Str(IF i % 2 = 1 THEN <<"a">> ELSE <<"b", "a">>),
   text |-> IF v = 2 /\ i % 4 = 0 THEN Null
            ELSE Str(<<Section(<< >>, Body),
                       Section(Plan, IF i % 3 = 0 THEN <<" ">>
                                     ELSE <<" ", "x", " ">>)>>),
   trashed |-> IF v = 1 /\ i % 3 = 0 THEN 1 ELSE 0,
   tags |-> IF i % 2 = 1 THEN {1} ELSE {},
   created |-> IF v = 2 THEN (i * 7) % (MaxRows + 3) ELSE i]

\* Row k of ZSFNOTETAG; rank is the place of the name in ORDER BY name.
TagRow(k, t) == [pk |-> k, name |-> TagName(k), rank |-> t + 1 - k]

Shapes == {0, 1, 2}

\* The database with n notes of shape v and t tags.
Database(n, t, v) ==
  [notes |-> [i \in 1..n |-> NoteRow(i, v)],
   tags |-> [k \in 1..t |-> TagRow(k, t)]]

Databases ==
  {Database(n, t, v) : n \in {0, 1, 3, MaxRows},
                       t \in {0, 2, MaxTagRows}, v \in Shapes}

EmptyDatabase == Database(0, 0, 0)

\* ------------------------------------------------------------------ BearDB
\* An object with the fields fs: the arguments of a request, a row a
\* statement returned, a record a function returned.
Obj(fs) == <<"object", fs>>

\* o.f
Field(o, f) == Get(o[2], f)

\* A function returned v / threw an Error with message m.
Returned(v) == [threw |-> FALSE, value |-> v]
Threw(m) == [threw |-> TRUE, message |-> m]


\* s in reversed order.
Reverse(s) == [i \in DOMAIN s |-> s[Len(s) + 1 - i]]

\* ORDER BY name (ascending; the names of a table's tags differ).
OrderByName(s) == SortSeq(s, LAMBDA a, b : a.rank < b.rank)

\* ORDER BY n.ZCREATIONDATE, ascending (the dates of the rows differ).
OrderByDate(s) == SortSeq(s, LAMBDA a, b : a.created < b.created)

\* cs LIKE '%t%' on sequences of characters.
Contains(cs, t) ==
  \E i \in 0..(Len(cs) - Len(t)) : SubSeq(cs, i + 1, i + Len(t)) = t

\* The characters of a text, the headings left out.
RECURSIVE Bodies(_)
Bodies(secs) ==
  IF secs = << >> THEN << >> ELSE Head(secs).body \o Bodies(Tail(secs))

\* ZTITLE LIKE '%t%': NULL matches nothing.
LikeTitle(column, t) == column # Null /\ Contains(column[2], t)

\* ZTEXT LIKE '%t%'
LikeText(column, t) ==
  /\ column # Null
  /\ \/ Contains(Bodies(column[2]), t)
     \/ \E i \in DOMAIN column[2] : Contains(column[2][i].header, t)

\* statement.get(id): the first row WHERE ZUNIQUEIDENTIFIER = id.
RowByIdFirst(d, id) ==
  IF d.notes = << >> THEN Undef ELSE Obj(d.notes[1])

RowById(d, id) ==
  LET hits == SelectSeq(d.notes, LAMBDA r : r.id = id) IN
    IF hits = << >> THEN Undef ELSE Obj(hits[1])

\* statement.get(title): the first row WHERE ZTITLE = title.
RowByTitle(d, title) ==
  LET hits == SelectSeq(d.notes, LAMBDA r : r.title = title) IN
    IF hits = << >> THEN Undef ELSE Obj(hits[1])

\* The regular expression of the header option, run on a text: the body of
\* the first section under that heading, or no match.
HeaderMatch(text, header) ==
  LET hits == SelectSeq(text[2], LAMBDA s : s.header = header[2]) IN
    IF hits = << >> THEN Undef ELSE Str(hits[1].body)

\* getNoteByIdOrTitle(params)
getNoteByIdOrTitle(d, params) ==
  IF params = Undef
  THEN Threw(<<"Failed to get note: ", "TypeError">>)
  ELSE IF ~Truthy(Field(params, "id")) /\ ~Truthy(Field(params, "title"))
  THEN Threw(<<"Failed to get note: ",
               "Either id or title must be provided">>)
  ELSE
    LET row == IF Truthy(Field(params, "id"))
               THEN RowById(d, Field(params, "id"))
               ELSE RowByTitle(d, Field(params, "title"))
        header == Field(params, "header")
    IN
      IF row = Undef THEN Returned(Null)
      ELSE
        LET note == row[2] IN
          IF Truthy(Field(params, "exclude_trashed")) /\ note.trashed # 0
          THEN Returned(Null)
          ELSE IF Truthy(header) /\ note.text # Null /\ Truthy(note.text)
          THEN LET match == HeaderMatch(note.text, header) IN
                 IF match # Undef /\ Truthy(match)
                 THEN Returned(Obj(
                        [note |-> IF Trim(match[2]) = << >> THEN Str(<< >>)
                                  ELSE Str(<<Section(<< >>, Trim(match[2]))>>),
                         title |-> note.title, id |-> note.id]))
                 ELSE Returned(Null)
          ELSE Returned(Obj([note |-> note.text, title |-> note.title,
                             id |-> note.id]))

\* getTagsForNote(noteId): the names of the tags of the note, ordered.
getTagsForNote(d, noteId) ==
  LET row == RowById(d, noteId)
      linked == IF row = Undef THEN << >>
                ELSE SelectSeq(d.tags, LAMBDA t : t.pk \in row[2].tags)
      sorted == OrderByName(linked)
  IN [i \in DOMAIN sorted |-> sorted[i].name]

\* A row of a result of searchNotes or getNotesByTag.
Listed(d, row) ==
  [identifier |-> row.id, title |-> row.title,
   tags |-> getTagsForNote(d, row.id)]

\* The row of ZSFNOTETAG with that name is linked to the note.
Tagged(d, row, name) ==
  \E k \in DOMAIN d.tags :
    d.tags[k].name = name[2] /\ d.tags[k].pk \in row.tags

\* searchNotes(params)
searchNotes(d, params) ==
  IF params = Undef
  THEN Threw(<<"Failed to search notes: ", "TypeError">>)
  ELSE
    LET term == Field(params, "term")
        tag == Field(params, "tag")
        rows == SelectSeq(d.notes, LAMBDA n :
                  /\ n.trashed = 0
                  /\ Truthy(term) =>
                       (LikeTitle(n.title, term[2]) \/ LikeText(n.text, term[2]))
                  /\ Truthy(tag) => Tagged(d, n, tag))
    IN Returned([i \in DOMAIN rows |-> Listed(d, rows[i])])

\* getTags()
getTags(d) ==
  LET rows == OrderByName(d.tags) IN
    Returned([i \in DOMAIN rows |-> [name |-> rows[i].name]])

\* getNotesByTag(tagName)
getNotesByTag(d, tagName) ==
  IF tagName = Undef
  THEN \* statement.all(undefined): the value cannot be bound
       Threw(<<"Failed to get notes by tag: ", "TypeError">>)
  ELSE
    LET rows == SelectSeq(d.notes, LAMBDA n :
                  n.trashed = 0 /\ Tagged(d, n, tagName))
        sorted == Reverse(OrderByDate(rows))
    IN Returned([i \in DOMAIN sorted |-> Listed(d, sorted[i])])

\* ------------------------------------------------ tools, database variant
\* Array.prototype.slice(0, n): a negative n counts from the end.
Slice(s, n) ==
  SubSeq(s, 1, IF n < 0 THEN Max(Len(s) + n, 0) ELSE Min(n, Len(s)))

\* The result of a tool call: isError, the kind of text, the items the
\* text lists and the total it reports (undefined: none reported).
ToolResult(isError, text, listed, total) ==
  [isError |-> isError, text |-> text, listed |-> listed, total |-> total]

NoToolResult == ToolResult(FALSE, <<"none">>, << >>, Undef)

\* The text of the catch block of a handler: its prefix and error.message.
ToolError(prefix, message) ==
  ToolResult(TRUE, <<prefix>> \o message, << >>, Undef)

\* args.f can be read (reading a field of undefined throws).
HasArgs(args) == args # Undef

\* handleOpenNote(args)
handleOpenNote(d, args) ==
  LET r == getNoteByIdOrTitle(d, args) IN
    IF r.threw THEN ToolError("Error opening note: ", r.message)
    ELSE IF r.value = Null
    THEN ToolResult(TRUE, <<"Note not found.">>, << >>, Undef)
    ELSE ToolResult(FALSE, <<"Note opened successfully.">>,
                    <<r.value[2]>>, Undef)

\* The entry of fullNotes for a note of the search result: none when the
\* note is not found, a placeholder when fetching it throws.
FullNote(d, note) ==
  LET r == getNoteByIdOrTitle(d, Obj([id |-> note.identifier])) IN
    IF r.threw
    THEN <<[title |-> note.title, id |-> note.identifier,
            content |-> <<"Error retrieving content">>]>>
    ELSE IF r.value = Null THEN << >>
    ELSE <<[title |-> note.title, id |-> note.identifier,
            content |-> IF r.value[2].note # Null /\ Truthy(r.value[2].note)
                        THEN r.value[2].note
                        ELSE <<"Content not available">>]>>

RECURSIVE FullNotes(_, _)
FullNotes(d, notes) ==
  IF notes = << >> THEN << >>
  ELSE FullNote(d, Head(notes)) \o FullNotes(d, Tail(notes))

\* The limit in force: args.f when it is not undefined, else the default.
LimitOf(args, f, default) ==
  IF Field(args, f) # Undef THEN Field(args, f)[2] ELSE default

\* handleSearchNotes(args)
handleSearchNotes(d, args) ==
  LET r == searchNotes(d, args) IN
    IF r.threw THEN ToolError("Error performing search: ", r.message)
    ELSE IF r.value = << >>
    THEN ToolResult(FALSE, <<"No notes found matching the search criteria.">>,
                    << >>, Undef)
    ELSE LET maxNotes == LimitOf(args, "max_notes", DEFAULT_MAX_NOTES)
             limitedNotes == Slice(r.value, maxNotes)
         IN ToolResult(FALSE, <<"Search performed successfully.">>,
                       FullNotes(d, limitedNotes), Num(Len(r.value)))

\* handleGetTags(args = {})
handleGetTags(d, args) ==
  LET r == getTags(d)
      a == IF args = Undef THEN Obj(<< >>) ELSE args
  IN
    IF r.threw THEN ToolError("Error retrieving tags: ", r.message)
    ELSE IF r.value = << >>
    THEN ToolResult(FALSE, <<"No tags found in Bear.">>, << >>, Undef)
    ELSE LET maxTags == LimitOf(a, "max_tags", DEFAULT_MAX_TAGS)
             limitedTags == Slice(r.value, maxTags)
             hasMoreTags == Len(r.value) > maxTags
         IN ToolResult(FALSE, <<"Tags retrieved successfully from Bear:">>,
                       limitedTags,
                       IF hasMoreTags THEN Num(Len(r.value)) ELSE Undef)

\* handleOpenTag(args)
handleOpenTag(d, args) ==
  IF ~HasArgs(args) THEN ToolError("Error opening tag: ", <<"TypeError">>)
  ELSE
    LET r == getNotesByTag(d, Field(args, "name")) IN
      IF r.threw THEN ToolError("Error opening tag: ", r.message)
      ELSE IF r.value = << >>
      THEN ToolResult(FALSE, <<"No notes found with tag: ">>, << >>, Undef)
      ELSE LET maxNotes == LimitOf(args, "max_notes", DEFAULT_MAX_NOTES)
               limitedNotes == Slice(r.value, maxNotes)
           IN ToolResult(FALSE, <<"Found matching notes with tag: ">>,
                         limitedNotes, Num(Len(r.value)))

\* The tools the server lists.
Tools == {"open_note", "search_notes", "get_tags", "open_tag"}

\* The handler of CallToolRequestSchema: the switch on the tool name; the
\* McpError of the default branch is caught like any other error.
callTool(d, name, args) ==
  CASE name = "open_note" -> handleOpenNote(d, args)
    [] name = "search_notes" -> handleSearchNotes(d, args)
    [] name = "get_tags" -> handleGetTags(d, args)
    [] name = "open_tag" -> handleOpenTag(d, args)
    [] OTHER -> ToolError("Error: ",
                          <<"MCP error -32601: Unknown tool: ", name>>)

\* Values of max_notes and max_tags.
Limits ==
  {Undef} \cup {Num(n) : n \in {-1, 0, 2, MaxRows}}

\* Requests of tools/call: the tool named and its arguments.
ToolCall(name, args) == [name |-> name, args |-> args]

NoToolCall == ToolCall("none", Undef)

T1 == Str(TagName(1))

ToolCalls ==
  {ToolCall(n, Undef) : n \in Tools \cup {"create_note"}}
  \cup {ToolCall("open_note", Obj(Params([id |-> i, title |-> t,
                                          header |-> h,
                                          exclude_trashed |-> x]))) :
          i \in {Undef, Str(<<"n", "3">>), Str(<<"z">>)},
          t \in {Undef, Str(<<"a">>)},
          h \in {Undef, Str(Plan)},
          x \in {Undef, Bool(TRUE)}}
  \cup {ToolCall("search_notes", Obj(Params([term |-> t, tag |-> g,
                                             max_notes |-> m]))) :
          t \in {Undef, Str(<<"a">>), Str(<<"q">>)},
          g \in {Undef, T1}, m \in Limits}
  \cup {ToolCall("get_tags", Obj(Params([max_tags |-> m]))) : m \in Limits}
  \cup {ToolCall("open_tag", Obj(Params([name |-> g, max_notes |-> m]))) :
          g \in {Undef, T1, Str(<<"z">>)}, m \in Limits}

\* ------------------------------------------------------------------ state
VARIABLES
  pc,         \* position of each exchange in executeCommand
  listening,  \* the server's listening socket is bound and accepting
  port,       \* the port the server was bound to (0: never bound)
  conns,      \* established connections to the server
  timer,      \* the timeout timer: "unset", "armed", "fired"
  outcome,    \* state of the promise
  result,     \* value the promise was resolved with
  handled,    \* requests the request handler has been run for
  token,      \* this.token of the client
  call,       \* the facade call each exchange was started by
  sent,       \* the action and commandParams handed to executeCommand
  returned,   \* state of the promise the facade method returned
  url,        \* the bear:// url handed to `open`
  tool,       \* the result of the tool call an exchange was made for
  db,         \* the content of the Bear database
  dbcall,     \* the last tool call of the database variant
  dbresult,   \* the result returned for it
  phase,      \* position of handleSearchNotes (callback variant)
  found,      \* notes of the search result
  fullNotes,  \* content gathered so far, one entry per note fetched
  inflight,   \* openNote exchanges started and not settled
  fetched,    \* outcome of the last openNote exchange
  searchResult \* the result the search tool returned

coreVars == <<pc, listening, port, conns, timer, outcome, result, handled>>

facadeVars == <<token, call, sent, returned>>

dbVars == <<db, dbcall, dbresult>>

searchVars == <<phase, found, fullNotes, inflight, fetched, searchResult>>

\* What the steps of an exchange inside executeCommand leave alone.
outerVars == <<tool, dbVars, searchVars>>

quiet == <<facadeVars, url, outerVars>>

vars == <<pc, listening, port, conns, timer, outcome, result, handled,
          token, call, sent, returned, url, tool, db, dbcall, dbresult,
          phase, found, fullNotes, inflight, fetched, searchResult>>

Outcomes == {"Pending", "Resolved", "Timeout", "TransportFailure",
             "CallbackError", "ListenerError"}

TypeOK ==
  /\ pc \in [Exchanges -> {"Idle", "Invalid", "Unknown", "Binding", "Bound",
                           "Exec", "Waiting", "ExecFailed", "ListenFailed"}]
  /\ listening \in [Exchanges -> BOOLEAN]
  /\ port \in [Exchanges -> 0..NumPorts]
  /\ conns \in [Exchanges -> 0..MaxConns]
  /\ timer \in [Exchanges -> {"unset", "armed", "fired"}]
  /\ outcome \in [Exchanges -> Outcomes]
  /\ handled \in [Exchanges -> 0..MaxHandled]
  /\ \A e \in Exchanges :
       /\ returned[e].kind \in Outcomes \cup {"ValidationError"}
       /\ call[e].method \in Methods \cup {"none"}

\* The client as constructed with a token among tokens, no command issued.
InitWith(tokens) ==
  /\ token \in tokens
  /\ url = [e \in Exchanges |-> NoUrl]
  /\ tool = [e \in Exchanges |-> NoToolResult]
  /\ dbcall = NoToolCall
  /\ dbresult = NoToolResult
  /\ phase = "idle"
  /\ found = 0
  /\ fullNotes = << >>
  /\ inflight = 0
  /\ fetched = "none"
  /\ searchResult = NoToolResult
  /\ call = [e \in Exchanges |-> NoCall]
  /\ sent = [e \in Exchanges |-> NoSent]
  /\ returned = [e \in Exchanges |-> [kind |-> "Pending", value |-> NoResult]]
  /\ pc = [e \in Exchanges |-> "Idle"]
  /\ listening = [e \in Exchanges |-> FALSE]
  /\ port = [e \in Exchanges |-> 0]
  /\ conns = [e \in Exchanges |-> 0]
  /\ timer = [e \in Exchanges |-> "unset"]
  /\ outcome = [e \in Exchanges |-> "Pending"]
  /\ result = [e \in Exchanges |-> NoResult]
  /\ handled = [e \in Exchanges |-> 0]

Init == InitWith({Undef}) /\ db = EmptyDatabase

FacadeInit == InitWith({Undef, Str(<< >>), TokenT}) /\ db = EmptyDatabase

\* The server of the database variant, started on any of the databases.
DbInit == InitWith({Undef}) /\ db \in Databases

\* ---------------------------------------------------------------- promise
\* resolve(v) / reject(err) of the promise of exchange e: the first call
\* settles it, every later call is ignored.
SettleOverwrite(e, kind, val) ==
  /\ outcome' = [outcome EXCEPT ![e] = kind]
  /\ result' = [result EXCEPT ![e] = val]

Settle(e, kind, val) ==
  IF outcome[e] = "Pending"
  THEN /\ outcome' = [outcome EXCEPT ![e] = kind]
       /\ result' = [result EXCEPT ![e] = val]
  ELSE UNCHANGED <<outcome, result>>

\* server.close(): the listening socket is released; established
\* connections are kept.  Closing a closed server changes nothing.
ServerClose(e) == listening' = [listening EXCEPT ![e] = FALSE]

\* ------------------------------------------------------------- operations
\* executeCommand up to the return of the promise: createServer,
\* server.listen(0, 'localhost', cb), server.on('error', ...).
Start(e) ==
  /\ pc[e] = "Idle"
  /\ pc' = [pc EXCEPT ![e] = "Binding"]
  /\ UNCHANGED <<listening, port, conns, timer, outcome, result, handled>>

\* The ports no listening socket is bound to.
FreePorts == Ports \ {port[e] : e \in {x \in Exchanges : listening[x]}}

\* listen(0): the operating system binds the socket to a free port; the
\* 'listening' event is queued.
Bound(e, p) ==
  /\ pc[e] = "Binding"
  /\ p \in FreePorts
  /\ pc' = [pc EXCEPT ![e] = "Bound"]
  /\ listening' = [listening EXCEPT ![e] = TRUE]
  /\ port' = [port EXCEPT ![e] = p]
  /\ UNCHANGED <<conns, timer, outcome, result, handled>>

\* listen(0) fails: the 'error' handler rejects the promise.
ListenError(e) ==
  /\ pc[e] = "Binding"
  /\ pc' = [pc EXCEPT ![e] = "ListenFailed"]
  /\ Settle(e, "ListenerError", NoResult)
  /\ UNCHANGED <<listening, port, conns, timer, handled>>

ListenCallbackEarly(e) ==
  /\ pc[e] \in {"Binding", "Bound"}
  /\ pc' = [pc EXCEPT ![e] = "Exec"]
  /\ url' = [url EXCEPT ![e] = BearUrl(sent[e].action, sent[e].params,
                                       CallbackUrl(port[e]))]
  /\ UNCHANGED <<listening, port, conns, timer, outcome, result, handled>>

\* The listen callback up to `await execPromise(...)`: the url is built
\* with the server's port and the `open` process is started.
ListenCallback(e) ==
  /\ pc[e] = "Bound"
  /\ pc' = [pc EXCEPT ![e] = "Exec"]
  /\ url' = [url EXCEPT ![e] = BearUrl(sent[e].action, sent[e].params,
                                       CallbackUrl(port[e]))]
  /\ UNCHANGED <<listening, port, conns, timer, outcome, result, handled>>

ExecSucceedNoTimer(e) ==
  /\ pc[e] = "Exec"
  /\ pc' = [pc EXCEPT ![e] = "Waiting"]
  /\ UNCHANGED <<listening, port, conns, timer, outcome, result, handled>>

\* `open` exited with status 0: the timeout timer is set.
ExecSucceed(e) ==
  /\ pc[e] = "Exec"
  /\ pc' = [pc EXCEPT ![e] = "Waiting"]
  /\ timer' = [timer EXCEPT ![e] = "armed"]
  /\ UNCHANGED <<listening, port, conns, outcome, result, handled>>

ExecFailTimerSet(e) ==
  /\ pc[e] = "Exec"
  /\ pc' = [pc EXCEPT ![e] = "ExecFailed"]
  /\ timer' = [timer EXCEPT ![e] = "armed"]
  /\ ServerClose(e)
  /\ Settle(e, "TransportFailure", NoResult)
  /\ UNCHANGED <<port, conns, handled>>

ExecFailRetry(e) ==
  /\ pc[e] = "Exec"
  /\ pc' = [pc EXCEPT ![e] = "Binding"]
  /\ ServerClose(e)
  /\ UNCHANGED <<port, conns, timer, handled, outcome, result>>

ExecFailNoClose(e) ==
  /\ pc[e] = "Exec"
  /\ pc' = [pc EXCEPT ![e] = "ExecFailed"]
  /\ Settle(e, "TransportFailure", NoResult)
  /\ UNCHANGED <<listening, port, conns, timer, handled>>

ExecFailOverwrite(e) ==
  /\ pc[e] = "Exec"
  /\ pc' = [pc EXCEPT ![e] = "ExecFailed"]
  /\ ServerClose(e)
  /\ SettleOverwrite(e, "TransportFailure", NoResult)
  /\ UNCHANGED <<port, conns, timer, handled>>

\* `open` failed: the catch block closes the server and rejects.
ExecFail(e) ==
  /\ pc[e] = "Exec"
  /\ pc' = [pc EXCEPT ![e] = "ExecFailed"]
  /\ ServerClose(e)
  /\ Settle(e, "TransportFailure", NoResult)
  /\ UNCHANGED <<port, conns, timer, handled>>

TimerFireNoReject(e) ==
  /\ timer[e] = "armed"
  /\ timer' = [timer EXCEPT ![e] = "fired"]
  /\ ServerClose(e)
  /\ UNCHANGED <<pc, port, conns, handled, outcome, result>>

TimerFireNoClose(e) ==
  /\ timer[e] = "armed"
  /\ timer' = [timer EXCEPT ![e] = "fired"]
  /\ Settle(e, "Timeout", NoResult)
  /\ UNCHANGED <<pc, port, conns, handled, listening>>

TimerFireForce(e) ==
  /\ timer[e] = "armed"
  /\ timer' = [timer EXCEPT ![e] = "fired"]
  /\ ServerClose(e)
  /\ SettleOverwrite(e, "Timeout", NoResult)
  /\ UNCHANGED <<pc, port, conns, handled>>

\* The timer callback: server.close(); reject(new Error('Callback timeout')).
TimerFire(e) ==
  /\ timer[e] = "armed"
  /\ timer' = [timer EXCEPT ![e] = "fired"]
  /\ ServerClose(e)
  /\ Settle(e, "Timeout", NoResult)
  /\ UNCHANGED <<pc, port, conns, handled>>

\* A client connects to port p: the server listening there accepts.  The
\* 'listening' event is emitted on the tick of the bind, before any
\* connection event, so the listen callback has run by then.
Connect(e, p) ==
  /\ listening[e]
  /\ pc[e] # "Bound"
  /\ port[e] = p
  /\ conns[e] < MaxConns
  /\ conns' = [conns EXCEPT ![e] = @ + 1]
  /\ UNCHANGED <<pc, listening, port, timer, outcome, result, handled>>

\* A connection ends (the client closes it, or it idles out).
Disconnect(e) ==
  /\ conns[e] > 0
  /\ conns' = [conns EXCEPT ![e] = @ - 1]
  /\ UNCHANGED <<pc, listening, port, timer, outcome, result, handled>>

RequestHandlerShared(e, r) ==
  IF r.url = MalformedUrl
  THEN /\ Settle(e, "CallbackError", NoResult)
       /\ UNCHANGED listening
  ELSE /\ ServerClose(e)
       /\ outcome' = [x \in Exchanges |->
                        IF outcome[x] = "Pending" THEN "Resolved" ELSE outcome[x]]
       /\ result' = [x \in Exchanges |->
                       IF outcome[x] = "Pending" THEN DecodeQuery(r.query)
                       ELSE result[x]]

RequestHandlerOverwrite(e, r) ==
  IF r.url = MalformedUrl
  THEN /\ Settle(e, "CallbackError", NoResult)
       /\ UNCHANGED listening
  ELSE /\ ServerClose(e)
       /\ SettleOverwrite(e, "Resolved", DecodeQuery(r.query))

\* The request handler of the server of exchange e, run for request r.
RequestHandler(e, r) ==
  IF r.url = MalformedUrl
  THEN \* new URL(...) throws: the catch block rejects; nothing was closed
       /\ Settle(e, "CallbackError", NoResult)
       /\ UNCHANGED listening
  ELSE \* reply 200, server.close(), decode, resolve(callbackData)
       /\ ServerClose(e)
       /\ Settle(e, "Resolved", DecodeQuery(r.query))

\* A request arrives on an established connection of the server of e.
Request(e, r) ==
  /\ conns[e] > 0
  /\ handled[e] < MaxHandled
  /\ handled' = [handled EXCEPT ![e] = @ + 1]
  /\ RequestHandler(e, r)
  /\ UNCHANGED <<pc, port, conns, timer>>

\* The 'error' handler of the server, for an error raised while it is
\* listening (a failed accept): reject(error); nothing is closed.
ServerError(e) ==
  /\ listening[e]
  /\ pc[e] # "Bound"
  /\ Settle(e, "ListenerError", NoResult)
  /\ UNCHANGED <<pc, listening, port, conns, timer, handled>>

InvokeStoreToken(e, c) ==
  /\ pc[e] = "Idle"
  /\ call' = [call EXCEPT ![e] = c]
  /\ token' = IF Truthy(Get(c.params, "token")) THEN Get(c.params, "token")
              ELSE token
  /\ LET f == Facade(c.method, c.params, token) IN
       IF f.ok
       THEN /\ Start(e)
            /\ sent' = [sent EXCEPT ![e] = [action |-> ActionOf(c.method),
                                            params |-> f.params]]
            /\ UNCHANGED returned
       ELSE /\ pc' = [pc EXCEPT ![e] = "Invalid"]
            /\ returned' = [returned EXCEPT ![e] =
                              [kind |-> "ValidationError", value |-> f.error]]
            /\ UNCHANGED <<listening, port, conns, timer, outcome, result,
                           handled, sent>>

\* A facade method called with the params of c: it throws (the promise it
\* returns is rejected and nothing else happens) or it calls
\* executeCommand, which runs up to server.on('error', ...).
Invoke(e, c) ==
  /\ pc[e] = "Idle"
  /\ call' = [call EXCEPT ![e] = c]
  /\ LET f == Facade(c.method, c.params, token) IN
       IF f.ok
       THEN /\ Start(e)
            /\ sent' = [sent EXCEPT ![e] = [action |-> ActionOf(c.method),
                                            params |-> f.params]]
            /\ UNCHANGED returned
       ELSE /\ pc' = [pc EXCEPT ![e] = "Invalid"]
            /\ returned' = [returned EXCEPT ![e] =
                              [kind |-> "ValidationError", value |-> f.error]]
            /\ UNCHANGED <<listening, port, conns, timer, outcome, result,
                           handled, sent>>
  /\ UNCHANGED token

FacadeAdoptGeneric(e) ==
  /\ returned[e].kind = "Pending"
  /\ outcome[e] # "Pending"
  /\ returned' = [returned EXCEPT ![e] =
                    [kind |-> IF outcome[e] = "Resolved" THEN "Resolved"
                              ELSE "TransportFailure",
                     value |-> result[e]]]
  /\ UNCHANGED <<token, call, sent>>
  /\ UNCHANGED coreVars

\* `return this.executeCommand(...)`: the promise of the facade method
\* follows the promise of executeCommand once that one is settled.
FacadeAdopt(e) ==
  /\ returned[e].kind = "Pending"
  /\ outcome[e] # "Pending"
  /\ returned' = [returned EXCEPT ![e] =
                    [kind |-> outcome[e], value |-> result[e]]]
  /\ UNCHANGED <<token, call, sent>>
  /\ UNCHANGED coreVars

\* setToken(t)
SetToken(t) ==
  /\ token' = t
  /\ UNCHANGED <<call, sent, returned>>
  /\ UNCHANGED coreVars

\* The steps of the exchanges E, started by calls among C.
Steps(E, C) ==
  \/ \E e \in E, c \in C : Invoke(e, c) /\ UNCHANGED <<url, outerVars>>
  \/ \E e \in E, p \in Ports : Bound(e, p) /\ UNCHANGED quiet
  \/ \E e \in E : ListenError(e) /\ UNCHANGED quiet
  \/ \E e \in E : ListenCallback(e) /\ UNCHANGED <<facadeVars, outerVars>>
  \/ \E e \in E : ExecSucceed(e) /\ UNCHANGED quiet
  \/ \E e \in E : ExecFail(e) /\ UNCHANGED quiet
  \/ \E e \in E : TimerFire(e) /\ UNCHANGED quiet
  \/ \E e \in E : ServerError(e) /\ UNCHANGED quiet
  \/ \E e \in E, p \in Ports : Connect(e, p) /\ UNCHANGED quiet
  \/ \E e \in E : Disconnect(e) /\ UNCHANGED quiet
  \/ \E e \in E, r \in Requests : Request(e, r) /\ UNCHANGED quiet
  \/ \E e \in E : FacadeAdopt(e) /\ UNCHANGED <<url, outerVars>>

\* Several commands in flight on a client whose token is left alone.
Next == Steps(Exchanges, CoreCalls)

Spec == Init /\ [][Next]_vars

\* One command, any facade call, on a client whose token may be replaced.
FacadeNext ==
  \/ Steps({"A"}, FacadeCalls)
  \/ \E t \in {TokenU} : SetToken(t) /\ UNCHANGED <<url, outerVars>>

FacadeSpec == FacadeInit /\ [][FacadeNext]_vars

\* ---------------------------------------------- steps, database variant
CallToolWriting(c) ==
  /\ dbcall' = c
  /\ dbresult' = callTool(db, c.name, c.args)
  /\ db' = IF c.name = "open_note" /\ db.notes # << >>
           THEN [db EXCEPT !.notes[1].trashed = 1] ELSE db
  /\ UNCHANGED <<coreVars, facadeVars, url, tool, searchVars>>

\* A tools/call request is handled: the statements it runs are SELECTs on
\* a connection opened with readonly: true.
CallTool(c) ==
  /\ dbcall' = c
  /\ dbresult' = callTool(db, c.name, c.args)
  /\ UNCHANGED db
  /\ UNCHANGED <<coreVars, facadeVars, url, tool, searchVars>>

DbNext == \E c \in ToolCalls : CallTool(c)

DbSpec == DbInit /\ [][DbNext]_vars

\* ------------------------------- handleSearchNotes, callback variant
\* The outcomes a settled exchange may have.
SettledOutcomes == Outcomes \ {"Pending"}

\* What a resolved search exchange may carry: no `notes` key, a value that
\* is no array, or an array of n notes (the notes are numbered 1..n).
SearchPayloads ==
  {<<"no notes key">>, <<"no array">>} \cup {Arr(n) : n \in 0..MaxFound}

Placeholder == "Error retrieving content"

\* The entry of fullNotes for note i, whose openNote exchange ended in o
\* (hasNote: the resolved value has a non-empty `note`).
FetchedNote(i, o, hasNote) ==
  [id |-> i,
   content |-> IF o # "Resolved" THEN Placeholder
               ELSE IF hasNote THEN "note" ELSE "Content not available"]

\* tools/call of search_notes: handleSearchNotes calls bearApi.searchNotes.
SearchStart ==
  /\ phase = "idle"
  /\ phase' = "searching"
  /\ inflight' = inflight + 1
  /\ UNCHANGED <<found, fullNotes, fetched, searchResult>>
  /\ UNCHANGED <<coreVars, facadeVars, url, tool, dbVars>>

\* The search exchange settles with outcome o and payload w; the handler
\* runs up to the first openNote, or returns.
SearchSettle(o, w) ==
  /\ phase = "searching"
  /\ inflight' = inflight - 1
  /\ IF o # "Resolved"
     THEN /\ phase' = "done"
          /\ searchResult' = ToolError("Error performing search: ", <<o>>)
          /\ UNCHANGED found
     ELSE IF w \in {<<"no notes key">>, <<"no array">>, Arr(0)}
     THEN /\ phase' = "done"
          /\ searchResult' =
               ToolResult(FALSE, <<"Search performed successfully", w[1]>>,
                          << >>, Undef)
          /\ UNCHANGED found
     ELSE /\ phase' = "fetching"
          /\ found' = w[2]
          /\ UNCHANGED searchResult
  /\ UNCHANGED <<fullNotes, fetched>>
  /\ UNCHANGED <<coreVars, facadeVars, url, tool, dbVars>>

\* The next iteration of the loop over notesToProcess: `await
\* bearApi.openNote(...)` starts an exchange; the previous iteration's
\* await has returned.
FetchStart ==
  /\ phase = "fetching"
  /\ inflight = 0
  /\ Len(fullNotes) < Min(found, MAX_NOTES)
  /\ inflight' = inflight + 1
  /\ fetched' = "none"
  /\ UNCHANGED <<phase, found, fullNotes, searchResult>>
  /\ UNCHANGED <<coreVars, facadeVars, url, tool, dbVars>>

FetchSettleAbort(o, hasNote) ==
  /\ phase = "fetching"
  /\ inflight > 0
  /\ inflight' = inflight - 1
  /\ fetched' = o
  /\ IF o = "Resolved"
     THEN /\ fullNotes' = Append(fullNotes,
                                 FetchedNote(Len(fullNotes) + 1, o, hasNote))
          /\ UNCHANGED <<phase, searchResult>>
     ELSE /\ phase' = "done"
          /\ searchResult' = ToolError("Error performing search: ", <<o>>)
          /\ UNCHANGED fullNotes
  /\ UNCHANGED found
  /\ UNCHANGED <<coreVars, facadeVars, url, tool, dbVars>>

\* The openNote exchange of the current note settles: the try block pushes
\* the content, the catch block pushes the placeholder.
FetchSettle(o, hasNote) ==
  /\ phase = "fetching"
  /\ inflight > 0
  /\ inflight' = inflight - 1
  /\ fetched' = o
  /\ fullNotes' = Append(fullNotes,
                         FetchedNote(Len(fullNotes) + 1, o, hasNote))
  /\ UNCHANGED <<phase, found, searchResult>>
  /\ UNCHANGED <<coreVars, facadeVars, url, tool, dbVars>>

\* The loop is over: the handler returns the formatted notes.
SearchReturn ==
  /\ phase = "fetching"
  /\ inflight = 0
  /\ Len(fullNotes) = Min(found, MAX_NOTES)
  /\ phase' = "done"
  /\ searchResult' =
       ToolResult(FALSE, <<"Search performed successfully in the Bear app.">>,
                  fullNotes, Num(found))
  /\ UNCHANGED <<found, fullNotes, inflight, fetched>>
  /\ UNCHANGED <<coreVars, facadeVars, url, tool, dbVars>>

SearchNext ==
  \/ SearchStart
  \/ \E o \in SettledOutcomes, w \in SearchPayloads : SearchSettle(o, w)
  \/ FetchStart
  \/ \E o \in SettledOutcomes, hasNote \in BOOLEAN : FetchSettle(o, hasNote)
  \/ SearchReturn

SearchSpec == Init /\ [][SearchNext]_vars

\* -------------------------------------------- tools, callback variant
\* The tools handled by one call of a facade method, and that method.
MethodTools == {<<"createNote", "create_note">>, <<"grabURL", "grab_url">>}

ToolOf(method) == (CHOOSE mt \in MethodTools : mt[1] = method)[2]

\* Names of tools the server does not list.
UnknownTools == {"delete_note"}

\* 'k' in result, for a result decoded from a query.
HasKey(value, k) == k \in DOMAIN value

\* result.k
ValueOf(value, k) == value[k]

\* The text of the catch block of the handler of a tool.
ErrorPrefix(toolName) ==
  CASE toolName = "create_note" -> "Error creating note: "
    [] toolName = "grab_url" -> "Error grabbing URL: "

\* The text of the try block of the handler of a tool.
SuccessText(toolName) ==
  CASE toolName = "create_note" -> "Note created successfully with title: "
    [] toolName = "grab_url" -> "URL grabbed successfully: "

\* handleCreateNote / handleGrabUrl once `await bearApi.method(args)` is
\* over: r is the state of the promise the facade method returned.
handleTool(toolName, r) ==
  IF r.kind # "Resolved"
  THEN ToolError(ErrorPrefix(toolName), <<r.kind>>)
  ELSE IF HasKey(r.value, "identifier")
  THEN ToolResult(FALSE, <<SuccessText(toolName), "Note ID: ">>,
                  <<ValueOf(r.value, "identifier")>>, Undef)
  ELSE ToolResult(FALSE, <<SuccessText(toolName)>>, << >>, Undef)

\* The handler of the tool call that exchange e was made for returns.
ToolReturn(e) ==
  /\ tool[e] = NoToolResult
  /\ returned[e].kind # "Pending"
  /\ tool' = [tool EXCEPT ![e] =
                handleTool(ToolOf(call[e].method), returned[e])]
  /\ UNCHANGED <<coreVars, facadeVars, url, dbVars, searchVars>>

\* tools/call of a tool the switch has no case for: the McpError thrown by
\* the default branch is caught by the handler's own catch block.  No
\* facade method is called.
UnknownTool(e, name) ==
  /\ pc[e] = "Idle"
  /\ pc' = [pc EXCEPT ![e] = "Unknown"]
  /\ tool' = [tool EXCEPT ![e] =
                ToolError("Error: ",
                          <<"MCP error -32601: Unknown tool: ", name>>)]
  /\ UNCHANGED <<listening, port, conns, timer, outcome, result, handled>>
  /\ UNCHANGED <<facadeVars, url, dbVars, searchVars>>

\* One tool call at a time on the server of the callback variant.
ToolNext ==
  \/ Steps({"A"}, CoreCalls)
  \/ \E e \in {"A"} : ToolReturn(e)
  \/ \E e \in {"A"}, n \in UnknownTools : UnknownTool(e, n)

ToolSpec == Init /\ [][ToolNext]_vars

\* Fairness: the operating system answers listen(), queued callbacks run,
\* the `open` process exits, and an armed timer fires.
Fairness ==
  \A e \in Exchanges :
    /\ WF_vars(((\E p \in Ports : Bound(e, p)) \/ ListenError(e))
                 /\ UNCHANGED quiet)
    /\ WF_vars(ListenCallback(e) /\ UNCHANGED <<facadeVars, outerVars>>)
    /\ WF_vars((ExecSucceed(e) \/ ExecFail(e)) /\ UNCHANGED quiet)
    /\ WF_vars(TimerFire(e) /\ UNCHANGED quiet)

FairSpec == Spec /\ Fairness

\* ----------------------------------------------------------------- claims
\* The `open` invocation of exchange e has been triggered.
Dispatched(e) == pc[e] \in {"Exec", "Waiting", "ExecFailed"}

Settled(e) == outcome[e] # "Pending"

\* C1: once an exchange is Resolved or Rejected, no later event changes
\* its outcome or its result.
C1_AtMostOneSettlement ==
  [][\A e \in Exchanges :
       Settled(e) => outcome'[e] = outcome[e] /\ result'[e] = result[e]]_vars

\* A resolved exchange that afterwards saw a second request and its timer.
C1_Witness ==
  \E e \in Exchanges :
    outcome[e] = "Resolved" /\ handled[e] = 2 /\ timer[e] = "fired"

C3_ListenBeforeDispatch ==
  /\ [](\A e \in Exchanges : Dispatched(e) => port[e] \in Ports)
  /\ [][\A e \in Exchanges :
          ~Dispatched(e) /\ Dispatched(e)'
            => listening[e] /\ listening'[e] /\ port'[e] = port[e]]_vars

\* The invocation is out and the listener is up, nothing received yet.
C3_Witness ==
  \E e \in Exchanges : pc[e] = "Exec" /\ listening[e] /\ handled[e] = 0

\* C4: listeners that are up at the same time have different ports, and a
\* request handled by the listener of one command leaves every other
\* command's outcome, result and listener as they were.
C4_NoCrossDelivery ==
  /\ [](\A a, b \in Exchanges :
          a # b /\ listening[a] /\ listening[b] => port[a] # port[b])
  /\ [][\A a \in Exchanges :
          handled'[a] > handled[a]
            => \A b \in Exchanges \ {a} :
                 /\ outcome'[b] = outcome[b]
                 /\ result'[b] = result[b]
                 /\ listening'[b] = listening[b]]_vars

\* Two commands in flight; one got its callback, the other still waits.
C4_Witness ==
  \E a, b \in Exchanges :
    /\ a # b
    /\ outcome[a] = "Resolved" /\ handled[a] = 1
    /\ Dispatched(b) /\ listening[b] /\ outcome[b] = "Pending"

\* C5: a listener handles exactly one inbound request and is closed from
\* then on.
C5_OneShotListener ==
  \A e \in Exchanges :
    handled[e] <= 1 /\ (handled[e] = 1 => ~listening[e])

\* C6: the timeout rejection happens only when no request was handled
\* before the timer fired; a well-formed request handled while the
\* exchange is pending resolves it with the decoded payload.
C6_TimeoutOnlyWithoutCallback ==
  /\ [][\A e \in Exchanges :
          outcome[e] # "Timeout" /\ outcome'[e] = "Timeout"
            => handled[e] = 0 /\ timer[e] = "armed"]_vars
  /\ [][\A e \in Exchanges, r \in Requests :
          Request(e, r) /\ ~Settled(e) /\ r.url # MalformedUrl
            => outcome'[e] = "Resolved"
               /\ result'[e] = DecodeQuery(r.query)]_vars

\* A callback that came in while the timer was running.
C6_Witness ==
  \E e \in Exchanges :
    outcome[e] = "Resolved" /\ handled[e] = 1 /\ timer[e] = "armed"

\* C7: no timeout event fires for an exchange that is Resolved.
C7_TimerCancelledOnSuccess ==
  [][\A e \in Exchanges :
       outcome[e] = "Resolved" /\ timer[e] # "fired"
         => timer'[e] # "fired"]_vars

\* C8 as stated: from the dispatch on, an unsettled exchange has its
\* timer armed.
C8_TimerArmedFromDispatch ==
  \A e \in Exchanges :
    Dispatched(e) /\ ~Settled(e) => timer[e] = "armed"

\* C8 amended: the timer is set when `open` has returned successfully, and
\* not before; from then on an unsettled exchange has its timer armed.
C8_TimerArmedAfterExec ==
  \A e \in Exchanges :
    /\ timer[e] # "unset" <=> pc[e] = "Waiting"
    /\ pc[e] = "Waiting" /\ ~Settled(e) => timer[e] = "armed"

\* `open` has returned, the exchange waits for its callback.
C8_Witness ==
  \E e \in Exchanges :
    pc[e] = "Waiting" /\ ~Settled(e) /\ timer[e] = "armed" /\ listening[e]

\* C9: when the timer fires the listener is closed and stays closed; with
\* no request handled before, the exchange is rejected with the timeout
\* error; on a listener that already closed itself the close changes
\* nothing.
C9_TimeoutCleanup ==
  /\ [](\A e \in Exchanges : timer[e] = "fired" => ~listening[e])
  /\ [][\A e \in Exchanges :
          timer[e] = "armed" /\ timer'[e] = "fired"
            => /\ handled[e] = 0 /\ ~Settled(e) => outcome'[e] = "Timeout"
               /\ ~listening[e]
                    => /\ listening' = listening
                       /\ conns' = conns
                       /\ port' = port]_vars

\* One command timed out, the other had closed its listener itself before
\* its timer fired.
C9_Witness ==
  \E a, b \in Exchanges :
    /\ outcome[a] = "Timeout" /\ ~listening[a]
    /\ outcome[b] = "Resolved" /\ timer[b] = "fired"

\* C10: when `open` fails the listener is closed, a pending exchange is
\* rejected with the transport failure, and the timer is never set.
C10_TransportFailure ==
  /\ [](\A e \in Exchanges :
          pc[e] = "ExecFailed"
            => ~listening[e] /\ timer[e] = "unset" /\ Settled(e)
               /\ outcome[e] # "Timeout")
  /\ [][\A e \in Exchanges :
          pc[e] = "Exec" /\ pc'[e] = "ExecFailed" /\ ~Settled(e)
            => outcome'[e] = "TransportFailure"]_vars

\* A dispatch that failed with nothing received.
C10_Witness ==
  \E e \in Exchanges :
    pc[e] = "ExecFailed" /\ outcome[e] = "TransportFailure"
      /\ handled[e] = 0

\* A response of the x-error channel: Bear gives errorCode and errorMessage.
IsErrorResponse(r) ==
  \E i \in DOMAIN r.query : r.query[i][1] = "errorCode"

\* C11: a first inbound request that carries an error response ends the
\* exchange in Rejected(Error), never in Resolved.
C11_ErrorCallbackRejected ==
  [][\A e \in Exchanges, r \in Requests :
       Request(e, r) /\ handled[e] = 0 /\ ~Settled(e) /\ IsErrorResponse(r)
         => outcome'[e] = "CallbackError"]_vars

\* C12: after a rejection by a listener error the listener is closed.
C12_ListenerErrorCloses ==
  \A e \in Exchanges : outcome[e] = "ListenerError" => ~listening[e]

\* The call of exchange e ended in a validation error and nothing was
\* opened or dispatched for it.
RejectedUntouched(e) ==
  /\ pc[e] = "Invalid"
  /\ returned[e].kind = "ValidationError"
  /\ ~listening[e] /\ port[e] = 0 /\ conns[e] = 0
  /\ sent[e] = NoSent
  /\ timer[e] = "unset"

\* The fields each method requires to be non-empty strings.
RequiredOf(method) ==
  CASE method = "grabURL" -> {"url"}
    [] method \in {"openTag", "deleteTag"} -> {"name"}
    [] method = "renameTag" -> {"name", "new_name"}
    [] method = "addFile" -> {"file", "filename"}
    [] OTHER -> {}

\* v is missing, not a string, or made of whitespace only.
NotAName(v) ==
  \/ TypeOf(v) # "string"
  \/ \A i \in DOMAIN v[2] : v[2][i] = " "

\* C13: a call with a required field that is missing, not a string or
\* blank ends in a validation error with no listener and no dispatch.
C13_ValidationFirst ==
  \A e \in Exchanges :
    (\E f \in RequiredOf(call[e].method) : NotAName(Get(call[e].params, f)))
      => RejectedUntouched(e)

\* renameTag with a good name and a blank new_name.
C13_Witness ==
  \E e \in Exchanges :
    /\ call[e].method = "renameTag"
    /\ Get(call[e].params, "name") = Str(<<" ", "a", " ">>)
    /\ Get(call[e].params, "new_name") = Str(<<" ">>)
    /\ pc[e] = "Invalid"

\* C14: addText without id and without title fails validation.
C14_AddTextNeedsTarget ==
  \A e \in Exchanges :
    /\ call[e].method = "addText"
    /\ ~Truthy(Get(call[e].params, "id"))
    /\ ~Truthy(Get(call[e].params, "title"))
    => RejectedUntouched(e)

\* The boolean-typed fields of a method.
BooleanFields(method) ==
  {Fields(method)[i][1] :
     i \in {j \in DOMAIN Fields(method) : Fields(method)[j][2] = "boolean"}}

\* The boolean fields of the call of e are encoded with the tokens yes and
\* no, and a call with any other value in one of them is rejected.
BooleansEncoded(e, yes, no) ==
  call[e] # NoCall =>
  \A f \in BooleanFields(call[e].method) :
    LET v == Get(call[e].params, f) IN
      /\ sent[e] # NoSent /\ v = Bool(TRUE) => sent[e].params[f] = yes
      /\ sent[e] # NoSent /\ v = Bool(FALSE) => sent[e].params[f] = no
      /\ sent[e] # NoSent /\ v \in {yes, no} => sent[e].params[f] = v
      /\ sent[e] # NoSent /\ v = Undef => f \notin DOMAIN sent[e].params
      /\ v \notin {Undef, Bool(TRUE), Bool(FALSE), yes, no}
           => RejectedUntouched(e)

\* C15 as stated: true gives the token "true", false the token "false".
C15_BooleanTokensTrueFalse ==
  \A e \in Exchanges :
    BooleansEncoded(e, Str(<<"t", "r", "u", "e">>),
                    Str(<<"f", "a", "l", "s", "e">>))

\* C15 amended: true gives 'yes', false gives 'no', 'yes' and 'no' pass
\* unchanged, every other value is rejected.
C15_BooleanTokensYesNo ==
  \A e \in Exchanges :
    BooleansEncoded(e, Str(<<"y", "e", "s">>), Str(<<"n", "o">>))

\* createNote with pin: true went out as pin=yes.
C15_Witness ==
  \E e \in Exchanges :
    /\ call[e].method = "createNote"
    /\ Get(call[e].params, "pin") = Bool(TRUE)
    /\ sent[e] # NoSent
    /\ sent[e].params["pin"] = Str(<<"y", "e", "s">>)

\* The pieces of cs between its commas.
RECURSIVE SplitCommas(_, _)
SplitCommas(cs, piece) ==
  IF cs = << >> THEN <<piece>>
  ELSE IF Head(cs) = "," THEN <<piece>> \o SplitCommas(Tail(cs), << >>)
  ELSE SplitCommas(Tail(cs), Append(piece, Head(cs)))

\* C16: a list of tags goes out as its elements in order with commas
\* between them, a bare string goes out unchanged.
C16_FormatTags ==
  \A e \in Exchanges :
    LET v == Get(call[e].params, "tags") IN
      call[e] # NoCall /\ sent[e] # NoSent /\ <<"tags", "tags">> \in
                            {Fields(call[e].method)[i] :
                               i \in DOMAIN Fields(call[e].method)}
        => /\ TypeOf(v) = "array" /\ v[2] # << >>
                => /\ TypeOf(sent[e].params["tags"]) = "string"
                   /\ SplitCommas(sent[e].params["tags"][2], << >>) = v[2]
           /\ v = Arr(<<Work, Urgent>>)
                => sent[e].params["tags"] =
                     Str(<<"w", "o", "r", "k", ",",
                           "u", "r", "g", "e", "n", "t">>)
           /\ v = Arr(<< >>) => sent[e].params["tags"] = Str(<< >>)
           /\ TypeOf(v) = "string" /\ v[2] # << >>
                => sent[e].params["tags"] = v

\* ["work","urgent"] went out as "work,urgent".
C16_Witness ==
  \E e \in Exchanges :
    /\ Get(call[e].params, "tags") = Arr(<<Work, Urgent>>)
    /\ sent[e] # NoSent
    /\ Len(sent[e].params["tags"][2]) = 11

\* The client has a token.
HasToken(t) == t \notin {Undef, Str(<< >>)}

\* Exchange e is started by this step.
Invoked(e) == pc[e] = "Idle" /\ pc'[e] # "Idle"

\* C17: a call that needs credentials fails before anything is opened when
\* the client has no token and carries the client's token otherwise; with
\* selected absent or false no token goes out.
C17_TokenInjection ==
  /\ [](\A e \in Exchanges : pc[e] = "Invalid" => RejectedUntouched(e))
  /\ [][\A e \in Exchanges :
          Invoked(e) =>
            LET m == call'[e].method
                sel == Get(call'[e].params, "selected")
                selectable == m \in {"openNote", "addText", "addFile"}
                needs == \/ selectable /\ sel \in {Bool(TRUE), Yes}
                         \/ m = "getTags"
            IN /\ needs /\ ~HasToken(token) => pc'[e] = "Invalid"
               /\ needs /\ pc'[e] # "Invalid"
                    => /\ "token" \in DOMAIN sent'[e].params
                       /\ sent'[e].params["token"] = token
               /\ selectable /\ sel \in {Undef, Bool(FALSE), No}
                    /\ pc'[e] # "Invalid"
                    => "token" \notin DOMAIN sent'[e].params]_vars

\* openNote with selected: 'yes' dispatched with the client's token.
C17_Witness ==
  \E e \in Exchanges :
    /\ call[e].method = "openNote"
    /\ Get(call[e].params, "selected") = Yes
    /\ pc[e] = "Exec"
    /\ sent[e].params["token"] = TokenT

\* The keys of a query.
KeysOf(q) == {q[i][1] : i \in DOMAIN q}

\* C18: the promise of the facade method ends as the promise of
\* executeCommand did, and a resolved result has exactly the keys of the
\* callback's query, each with the decoded value of its last occurrence.
C18_ResultFidelity ==
  /\ [](\A e \in Exchanges :
          returned[e].kind \notin {"Pending", "ValidationError"}
            => /\ returned[e].kind = outcome[e]
               /\ returned[e].value = result[e])
  /\ [][\A e \in Exchanges, r \in Requests :
          Request(e, r) /\ ~Settled(e) /\ r.url # MalformedUrl
            => /\ DOMAIN result'[e] = KeysOf(r.query)
               /\ \A i \in DOMAIN r.query :
                    (\A j \in DOMAIN r.query : j > i => r.query[j][1] # r.query[i][1])
                      => result'[e][r.query[i][1]] =
                           (IF IsJSON(r.query[i][2])
                            THEN <<"json", r.query[i][2]>>
                            ELSE <<"raw", r.query[i][2]>>)]_vars

\* createNote returned the payload of its callback.
C18_Witness ==
  \E e \in Exchanges :
    /\ call[e].method = "createNote"
    /\ returned[e].kind = "Resolved"
    /\ DOMAIN returned[e].value = {"identifier", "title"}
    /\ returned[e].value["identifier"] = <<"raw", "abc-123">>

\* C19: an exchange binds one listener and dispatches once: a port once
\* bound is kept, a closed listener is not reopened, the commandParams
\* are not replaced, and a dispatched exchange is not dispatched again.
C19_NoRetry ==
  [][\A e \in Exchanges :
       /\ port[e] # 0 => port'[e] = port[e] /\ (listening'[e] => listening[e])
       /\ sent[e] # NoSent => sent'[e] = sent[e]
       /\ Dispatched(e)
            => Dispatched(e)' /\ (pc'[e] = "Exec" => pc[e] = "Exec")]_vars

\* A failed dispatch, reported to the caller and left at that.
C19_Witness ==
  \E e \in Exchanges :
    /\ pc[e] = "ExecFailed"
    /\ returned[e].kind = "TransportFailure"
    /\ ~listening[e]

\* C20 as stated: nothing changes the stored token.
C20_TokenNeverChanges ==
  [][token' = token]_vars

\* C20 amended: no command changes the stored token, only setToken does;
\* a token given with a call goes out in that call's parameters in place
\* of the stored one.
C20_TokenKeptByCommands ==
  /\ [][token' # token
          => UNCHANGED <<pc, listening, port, conns, timer, outcome, result,
                         handled, call, sent, returned>>]_vars
  /\ [][\A e \in Exchanges :
          Invoked(e) /\ pc'[e] # "Invalid"
            /\ call'[e].method \in {"openTag", "searchNotes", "showUntagged",
                                    "showTodo", "showToday"}
            => LET given == Get(call'[e].params, "token") IN
                 /\ HasToken(given) => sent'[e].params["token"] = given
                 /\ ~HasToken(given) /\ HasToken(token)
                      => sent'[e].params["token"] = token
                 /\ ~HasToken(given) /\ ~HasToken(token)
                      => "token" \notin DOMAIN sent'[e].params]_vars

\* openTag went out with the token given in the call; the client's own
\* token is still the one it was constructed with.
C20_Witness ==
  \E e \in Exchanges :
    /\ call[e].method = "openTag"
    /\ Get(call[e].params, "token") = TokenP
    /\ sent[e] # NoSent
    /\ sent[e].params["token"] = TokenP
    /\ token = TokenT

\* The full result the tool call c is answered from.
FullResult(c) ==
  CASE c.name = "search_notes" -> searchNotes(db, c.args).value
    [] c.name = "open_tag" -> getNotesByTag(db, Field(c.args, "name")).value
    [] c.name = "get_tags" -> getTags(db).value

\* The limit the tool call c asks for, or the default of its tool.
RequestedLimit(c) ==
  IF c.name = "get_tags"
  THEN LimitOf(IF c.args = Undef THEN Obj(<< >>) ELSE c.args, "max_tags",
               DEFAULT_MAX_TAGS)
  ELSE LimitOf(c.args, "max_notes", DEFAULT_MAX_NOTES)

\* The item of a full result that the listed item x stands for.
ListedAs(c, x) ==
  IF c.name = "search_notes" THEN [title |-> x.title, id |-> x.identifier]
  ELSE x

ItemOf(c, y) ==
  IF c.name = "search_notes" THEN [title |-> y.title, id |-> y.id] ELSE y

\* C21: search_notes and open_tag list at most max_notes notes (25 by
\* default), get_tags at most max_tags tags (100 by default); the items
\* listed are the first ones of the full result, in order, and a total that
\* is reported is the full number found.
C21_ResultLimits ==
  (dbcall.name \in {"search_notes", "open_tag", "get_tags"}
     /\ ~dbresult.isError)
    => /\ Len(dbresult.listed) <= Max(RequestedLimit(dbcall), 0)
       /\ \A i \in DOMAIN dbresult.listed :
            ItemOf(dbcall, dbresult.listed[i])
              = ListedAs(dbcall, FullResult(dbcall)[i])
       /\ dbresult.total # Undef
            => dbresult.total = Num(Len(FullResult(dbcall)))

\* C22: no tool call, successful or failing, changes the content of the
\* database.
C22_ReadOnly == [][db' = db]_vars

C22_Witness ==
  /\ db.notes # << >>
  /\ dbcall.name = "open_note"
  /\ ~dbresult.isError

\* C23: every note returned by searchNotes is found by
\* getNoteByIdOrTitle({id: note.identifier}), with the same id and title.
C23_SearchThenFetch ==
  (dbcall.name = "search_notes" /\ dbcall.args # Undef)
    => \A i \in DOMAIN searchNotes(db, dbcall.args).value :
         LET note == searchNotes(db, dbcall.args).value[i]
             r == getNoteByIdOrTitle(db, Obj([id |-> note.identifier]))
         IN /\ ~r.threw
            /\ r.value # Null
            /\ r.value[2].id = note.identifier
            /\ r.value[2].title = note.title

C23_Witness ==
  /\ dbcall.name = "search_notes"
  /\ dbcall.args # Undef
  /\ Truthy(Field(dbcall.args, "term"))
  /\ Len(searchNotes(db, dbcall.args).value) >= 2
  /\ Len(dbresult.listed) >= 2

\* C24: a record returned by getNoteByIdOrTitle has string fields note,
\* title and id and numeric fields creation_date and modification_date.
C24_FetchedNoteShape ==
  (dbcall.name = "open_note" /\ ~dbresult.isError)
    => LET r == dbresult.listed[1] IN
         /\ {"note", "title", "id", "creation_date", "modification_date"}
              \subseteq DOMAIN r
         /\ TypeOf(r.note) = "string"
         /\ TypeOf(r.title) = "string"
         /\ TypeOf(r.id) = "string"
         /\ TypeOf(r.creation_date) = "number"
         /\ TypeOf(r.modification_date) = "number"

\* C25: a dispatched invocation carries the encoded parameters of the
\* request and exactly two more, x-success and x-error, both the address of
\* the listener of its own exchange; while that listener is up, no other
\* exchange listens on the address.
C25_DeliveryDestinations ==
  /\ [](\A e \in Exchanges :
          Dispatched(e) =>
            /\ url[e].action = sent[e].action
            /\ DOMAIN url[e].query \ DOMAIN sent[e].params
                 = {"x-success", "x-error"}
            /\ \A k \in DOMAIN sent[e].params :
                 url[e].query[k] = sent[e].params[k]
            /\ url[e].query["x-success"] = CallbackUrl(port[e])
            /\ url[e].query["x-error"] = CallbackUrl(port[e]))
  /\ [](\A e, x \in Exchanges :
          (x # e /\ Dispatched(e) /\ listening[e] /\ listening[x])
            => /\ url[e].query["x-success"] # CallbackUrl(port[x])
               /\ url[e].query["x-error"] # CallbackUrl(port[x]))

\* Two invocations dispatched, each listener still up.
C25_Witness ==
  \E a, b \in Exchanges :
    /\ a # b
    /\ Dispatched(a) /\ listening[a]
    /\ Dispatched(b) /\ listening[b]
    /\ sent[a].params # << >>

C27_FastCallback ==
  /\ [][\A e \in Exchanges, r \in Requests :
          (Request(e, r) /\ pc[e] = "Exec" /\ ~Settled(e)
             /\ r.url # MalformedUrl)
            => /\ outcome'[e] = "Resolved"
               /\ result'[e] = DecodeQuery(r.query)]_vars
  /\ [][\A e \in Exchanges :
          (pc[e] = "Exec" /\ pc'[e] # "Exec" /\ outcome[e] = "Resolved")
            => /\ outcome'[e] = "Resolved"
               /\ result'[e] = result[e]]_vars

\* The callback came first, then `open` failed.
C27_Witness ==
  \E e \in Exchanges :
    /\ pc[e] = "ExecFailed"
    /\ outcome[e] = "Resolved"
    /\ result[e] # NoResult

\* C28: a first inbound request whose processing throws rejects the pending
\* exchange with that error, and no later request changes that outcome.
C28_MalformedCallback ==
  /\ [][\A e \in Exchanges, r \in Requests :
          (Request(e, r) /\ handled[e] = 0 /\ ~Settled(e)
             /\ r.url = MalformedUrl)
            => outcome'[e] = "CallbackError"]_vars
  /\ [][\A e \in Exchanges :
          outcome[e] = "CallbackError"
            => /\ outcome'[e] = "CallbackError"
               /\ result'[e] = result[e]]_vars

\* Rejected by a malformed request, then a well-formed request was handled
\* (its handler closed the listener).
C28_Witness ==
  \E e \in Exchanges :
    /\ outcome[e] = "CallbackError"
    /\ handled[e] = 2
    /\ ~listening[e]
    /\ timer[e] # "fired"
    /\ pc[e] # "ExecFailed"

\* C29: the search handler of the callback variant fetches the first
\* min(N, 10) notes, one openNote exchange at a time; a fetch that is
\* rejected or times out puts the placeholder in that note's place, the
\* fetching goes on, and the tool result is not an error.
C29_SearchFetches ==
  /\ [](inflight <= 1)
  /\ [](/\ Len(fullNotes) <= Min(found, MAX_NOTES)
        /\ \A i \in DOMAIN fullNotes : fullNotes[i].id = i)
  /\ [][(Len(fullNotes') = Len(fullNotes) + 1 /\ fetched' # "Resolved")
          => /\ fullNotes'[Len(fullNotes')].content = Placeholder
             /\ phase' = "fetching"
             /\ ~searchResult'.isError]_vars
  /\ [][(phase = "fetching" /\ inflight > 0 /\ inflight' < inflight)
          => Len(fullNotes') = Len(fullNotes) + 1]_vars
  /\ []((phase = "done" /\ found > 0)
          => /\ ~searchResult.isError
             /\ searchResult.listed = fullNotes
             /\ Len(fullNotes) = Min(found, MAX_NOTES))

\* More than ten notes found; a fetch failed, a later one succeeded, and
\* the handler returned.
C29_Witness ==
  /\ phase = "done"
  /\ found > MAX_NOTES
  /\ Len(searchResult.listed) = MAX_NOTES
  /\ \E i, j \in DOMAIN fullNotes :
       /\ i < j
       /\ fullNotes[i].content = Placeholder
       /\ fullNotes[j].content = "note"

\* The operation behind the tool call of exchange e failed: the tool is
\* unknown, the facade method's promise was rejected, or Bear answered on
\* the x-error channel.
OperationFailed(e) ==
  \/ pc[e] = "Unknown"
  \/ returned[e].kind # "Resolved"
  \/ HasKey(returned[e].value, "errorCode")

\* C30: a call of an unknown tool invokes no operation and returns a result
\* with isError = true that names the tool; a tool call returns a result
\* with isError = true exactly when its operation failed.
C30_FailuresAreErrors ==
  \A e \in Exchanges :
    /\ pc[e] = "Unknown"
         => /\ tool[e].isError
            /\ \E n \in UnknownTools : tool[e].text[Len(tool[e].text)] = n
            /\ call[e] = NoCall /\ sent[e] = NoSent /\ port[e] = 0
    /\ tool[e] # NoToolResult => (tool[e].isError <=> OperationFailed(e))

====
